---------------------------- MODULE Spec2Model ----------------------------
(***************************************************************************)
(* Verification model of two parts of the platform:                        *)
(*                                                                         *)
(*   - the embargo access check, common/djangoapps/embargo/api.py          *)
(*     (check_access and its helpers), as consulted by the embargo         *)
(*     middleware for a request;                                           *)
(*   - the course API views, lms/djangoapps/course_api/v0/views.py         *)
(*     (CourseList, CourseDetail, CourseStructure, CourseGradingPolicy).   *)
(*                                                                         *)
(* Python values are modelled as follows.  A str is a TLA+ string, except  *)
(* where the code looks inside it (an IP address, a course id, the         *)
(* course_id query parameter): those are sequences of one-character        *)
(* strings.  None, where a str is expected, is the string None below.      *)
(* A str.format() result is the record of the template's key and its       *)
(* keyword arguments.                                                      *)
(***************************************************************************)
EXTENDS Integers, Sequences, FiniteSets, TLC

VARIABLES
    restricted_courses,  \* RestrictedCourse table: the course keys under embargo
    blacklist_ips,       \* IPFilter.current().blacklist_ips
    whitelist_ips,       \* IPFilter.current().whitelist_ips
    country_rules,       \* CountryAccessRule table
    redirect_url,        \* settings.EMBARGO_SITE_REDIRECT_URL (None: not set)
    users,               \* the ids of the registered users
    profile,             \* UserProfile rows: user id -> profile.country.code
    cache,               \* django.core.cache: key -> value (None: no entry)
    log,                 \* records emitted through log.info
    ev,                  \* the check_access call that has just returned
    response,            \* what the middleware answered to that request
    store,               \* modulestore: the courses, in the store's order
    api,                 \* the last course API request and its HTTP response
    calls                \* check_access calls in progress, step by step

vars == <<restricted_courses, blacklist_ips, whitelist_ips, country_rules,
          redirect_url, users, profile, cache, log, ev, response, store, api,
          calls>>

---------------------------------------------------------------------------
(* Python's None and truth value testing.                                  *)

None == "None"

\* bool(v) of a str-or-None value: None and the empty str are false.
Truthy(v) == v /= None /\ v /= ""

---------------------------------------------------------------------------
(* The universe of the embargo model.                                      *)

\* How many country rules the rule table holds at most.
MaxRules == 1
\* How many addresses the IP filter lists at most, on either of its lists.
MaxIpList == 1

Users == {"u1", "u2"}
Courses == {"c1", "c2"}
Countries == {"US", "CU"}

\* Two IPv4 addresses and one IPv6 address.
IpCuba == <<"1", ".", "1">>
IpUnknown == <<"1", ".", "2">>
Ip6Us == <<"f", ":", "1">>
IPs == {IpCuba, IpUnknown, Ip6Us}

\* What profile.country.code can hold: nothing, a lower-case or an upper-case code.
ProfileCodes == {None, "us", "CU"}

\* The values settings.EMBARGO_SITE_REDIRECT_URL takes: unset, empty, a URL.
RedirectUrls == {None, "", "/embargo"}

WHITE_LIST == "whitelist"
BLACK_LIST == "blacklist"

AllRules == [course : Courses, country : Countries, rule_type : {WHITE_LIST, BLACK_LIST}]

\* str.upper() on the country codes of the model.
Upper(s) == CASE s = "us" -> "US"
              [] s = "cu" -> "CU"
              [] OTHER -> s

\* str.format(): the template's key in REASONS with its keyword arguments.
Format(template, kwargs) == [template |-> template, kwargs |-> kwargs]

\* check_access's return value None, in the type of its other return values.
NoReason == [template |-> None]

---------------------------------------------------------------------------
(* Collaborators of embargo/api.py that are not part of it.                *)

\* RestrictedCourse.is_restricted_course: is the course in the registry?
is_restricted_course(course_key) == course_key \in restricted_courses

\* CountryAccessRule.check_country_access: is the country blocked for the
\* course?  Blocked when a deny rule of the course names the country, or when
\* the course has an allow-list and the country is not on it.  No country code
\* (the empty str of a geolocation miss or of a missing profile country)
\* matches no rule.
check_country_access(course_id, country_code) ==
    /\ Truthy(country_code)
    /\ \/ \E r \in country_rules :
              r.course = course_id /\ r.rule_type = BLACK_LIST /\ r.country = country_code
       \/ /\ \E r \in country_rules : r.course = course_id /\ r.rule_type = WHITE_LIST
          /\ ~ \E r \in country_rules :
                  r.course = course_id /\ r.rule_type = WHITE_LIST /\ r.country = country_code

\* student.models.unique_id_for_user: the stable anonymized id of a user.
unique_id_for_user(user) == <<"anonymous", user>>

\* The two geolocation databases, settings.GEOIP_PATH (IPv4) and
\* settings.GEOIPV6_PATH (IPv6): address -> country code, the empty str for an
\* address the database does not know.
GEOIP == (IpCuba :> "CU") @@ (IpUnknown :> "")
GEOIPV6 == (Ip6Us :> "US")

\* pygeoip.GeoIP(path).country_code_by_addr(addr)
country_code_by_addr(database, addr) ==
    IF addr \in DOMAIN database THEN database[addr] ELSE ""

---------------------------------------------------------------------------
(* embargo/api.py                                                          *)

_from_course_msg(course_id, course_is_embargoed) ==
    IF course_is_embargoed
    THEN Format("from course {course_id}", [course_id |-> course_id])
    ELSE Format("", [x \in {} |-> None])

\* The decorator's _inner, given the reason its check function returned:
\* whether the user is blocked, and what it logs.
_log_embargo_reason(reason) ==
    IF reason = NoReason
    THEN [blocked |-> FALSE, logged |-> <<>>]
    ELSE [blocked |-> TRUE,
          logged |-> << [level |-> "info",
                         msg |-> Format("Embargo: {reason}", [reason |-> reason])] >>]

\* Mutation of _embargo_redirect_response: tests the setting against None
\* instead of its truth value.
_embargo_redirect_response_not_none ==
    IF redirect_url /= None
    THEN [kind |-> "HttpResponseRedirect", status |-> 302, to |-> redirect_url]
    ELSE [kind |-> "HttpResponseForbidden", status |-> 403, to |-> "Access Denied"]

_embargo_redirect_response ==
    IF Truthy(redirect_url)
    THEN [kind |-> "HttpResponseRedirect", status |-> 302, to |-> redirect_url]
    ELSE [kind |-> "HttpResponseForbidden", status |-> 403, to |-> "Access Denied"]

\* Mutation of _check_ip_lists: the whitelist is consulted first.
_check_ip_lists_whitelist_first(ip_addr, course_id) ==
    IF ip_addr \in whitelist_ips
    THEN None
    ELSE IF ip_addr \in blacklist_ips THEN "True" ELSE None

\* Returns "True" for a blacklisted address and None otherwise: the whitelist
\* branch and the end of the function both return None.
_check_ip_lists(ip_addr, course_id) ==
    IF ip_addr \in blacklist_ips
    THEN "True"
    ELSE IF ip_addr \in whitelist_ips THEN None ELSE None

\* Mutation of _check_user_country: a missing country code counts as blocked.
_check_user_country_fail_closed(country_code, course_id) ==
    country_code = "" \/ check_country_access(course_id, country_code)

_check_user_country(country_code, course_id) ==
    check_country_access(course_id, country_code)

cache_key(user) == <<"user", user, "profile", "country">>

\* Mutation of get_user_country_from_profile: a cached empty str counts as a
\* miss (the test is "not profile_country" instead of "is None").
get_user_country_from_profile_falsy_miss(user, course_id) ==
    LET key == cache_key(user)
        cached == cache[key]
        profile_country ==
            IF user \in DOMAIN profile /\ profile[user] /= None
            THEN Upper(profile[user])
            ELSE ""
    IN  IF ~ Truthy(cached)
        THEN [profile_country |-> profile_country,
              cache |-> [cache EXCEPT ![key] = profile_country],
              lookups |-> <<"cache.get", "profile", "cache.set">>]
        ELSE [profile_country |-> cached,
              cache |-> cache,
              lookups |-> <<"cache.get">>]

\* The value returned, the cache afterwards, and the lookups made.
get_user_country_from_profile(user, course_id) ==
    LET key == cache_key(user)
        cached == cache[key]
        profile_country ==
            IF user \in DOMAIN profile /\ profile[user] /= None
            THEN Upper(profile[user])
            ELSE ""
    IN  IF cached = None
        THEN [profile_country |-> profile_country,
              cache |-> [cache EXCEPT ![key] = profile_country],
              lookups |-> <<"cache.get", "profile", "cache.set">>]
        ELSE [profile_country |-> cached,
              cache |-> cache,
              lookups |-> <<"cache.get">>]

\* ip_addr.find(':') >= 0
HasColon(ip_addr) == \E i \in 1..Len(ip_addr) : ip_addr[i] = ":"

\* Mutation of _country_code_from_ip: every address is looked up in the IPv4
\* database.
_country_code_from_ip_v4_only(ip_addr) == country_code_by_addr(GEOIP, ip_addr)

_country_code_from_ip(ip_addr) ==
    IF HasColon(ip_addr)
    THEN country_code_by_addr(GEOIPV6, ip_addr)
    ELSE country_code_by_addr(GEOIP, ip_addr)

\* check_access is modelled in four parts, one per check of its body, each
\* going on to the next when its check does not match.  Each yields the return
\* value (a formatted reason, or NoReason), the cache afterwards, the records
\* logged, the profile country obtained (None when the call does not get that
\* far) and the lookups made, in order.

\* Mutation of check_access_profile_country: the country of the address is
\* checked a second time in place of the profile country.
check_access_profile_country_from_ip(user, ip_address, course_key) ==
    LET p == get_user_country_from_profile(user, course_key)
        user_country_from_profile == p.profile_country
        lookups == <<"RestrictedCourse", "IPFilter", "GeoIP", "CountryAccessRule">>
                   \o p.lookups \o <<"CountryAccessRule">>
    IN  IF _check_user_country(_country_code_from_ip(ip_address), course_key)
        THEN [ret |-> Format("profile_country",
                             [user_id |-> unique_id_for_user(user),
                              profile_country |-> user_country_from_profile,
                              from_course |-> _from_course_msg(course_key, TRUE)]),
              cache |-> p.cache, logged |-> <<>>,
              profile_country |-> user_country_from_profile, lookups |-> lookups]
        ELSE [ret |-> NoReason,
              cache |-> p.cache, logged |-> <<>>,
              profile_country |-> user_country_from_profile, lookups |-> lookups]

\* Lines 234-242: the profile country check, and the final return None.
check_access_profile_country(user, ip_address, course_key) ==
    LET p == get_user_country_from_profile(user, course_key)
        user_country_from_profile == p.profile_country
        lookups == <<"RestrictedCourse", "IPFilter", "GeoIP", "CountryAccessRule">>
                   \o p.lookups \o <<"CountryAccessRule">>
    IN  IF _check_user_country(user_country_from_profile, course_key)
        THEN [ret |-> Format("profile_country",
                             [user_id |-> unique_id_for_user(user),
                              profile_country |-> user_country_from_profile,
                              from_course |-> _from_course_msg(course_key, TRUE)]),
              cache |-> p.cache, logged |-> <<>>,
              profile_country |-> user_country_from_profile, lookups |-> lookups]
        ELSE [ret |-> NoReason,
              cache |-> p.cache, logged |-> <<>>,
              profile_country |-> user_country_from_profile, lookups |-> lookups]

\* Mutation of check_access_ip_country: the profile country is checked before
\* the country of the address.
check_access_ip_country_profile_first(user, ip_address, course_key) ==
    LET p == check_access_profile_country(user, ip_address, course_key)
        user_country_from_ip == _country_code_from_ip(ip_address)
    IN  IF p.ret /= NoReason
        THEN p
        ELSE IF _check_user_country(user_country_from_ip, course_key)
        THEN [ret |-> Format("ip_country",
                             [ip_addr |-> ip_address,
                              ip_country |-> user_country_from_ip,
                              from_course |-> _from_course_msg(course_key, TRUE)]),
              cache |-> p.cache, logged |-> <<>>, profile_country |-> p.profile_country,
              lookups |-> p.lookups]
        ELSE p

\* Mutation of check_access_ip_country: the profile country is looked up
\* before the country of the address is checked.
check_access_ip_country_eager_profile(user, ip_address, course_key) ==
    LET user_country_from_ip == _country_code_from_ip(ip_address)
        p == get_user_country_from_profile(user, course_key)
    IN  IF _check_user_country(user_country_from_ip, course_key)
        THEN [ret |-> Format("ip_country",
                             [ip_addr |-> ip_address,
                              ip_country |-> user_country_from_ip,
                              from_course |-> _from_course_msg(course_key, TRUE)]),
              cache |-> p.cache, logged |-> <<>>, profile_country |-> None,
              lookups |-> <<"RestrictedCourse", "IPFilter", "GeoIP", "CountryAccessRule">>]
        ELSE check_access_profile_country(user, ip_address, course_key)

\* Lines 226-232: the check of the country the address resolves to.
check_access_ip_country(user, ip_address, course_key) ==
    LET user_country_from_ip == _country_code_from_ip(ip_address)
    IN  IF _check_user_country(user_country_from_ip, course_key)
        THEN [ret |-> Format("ip_country",
                             [ip_addr |-> ip_address,
                              ip_country |-> user_country_from_ip,
                              from_course |-> _from_course_msg(course_key, TRUE)]),
              cache |-> cache, logged |-> <<>>, profile_country |-> None,
              lookups |-> <<"RestrictedCourse", "IPFilter", "GeoIP", "CountryAccessRule">>]
        ELSE check_access_profile_country(user, ip_address, course_key)

\* Mutation of check_access_ip_lists: a whitelisted address that is not
\* blacklisted is let in without the country checks.
check_access_ip_lists_whitelist_allows(user, ip_address, course_key) ==
    IF Truthy(_check_ip_lists(ip_address, course_key))
    THEN [ret |-> Format("ip_blacklist",
                         [ip_addr |-> ip_address,
                          from_course |-> _from_course_msg(course_key, TRUE)]),
          cache |-> cache, logged |-> <<>>, profile_country |-> None,
          lookups |-> <<"RestrictedCourse", "IPFilter">>]
    ELSE IF ip_address \in whitelist_ips
    THEN [ret |-> NoReason, cache |-> cache, logged |-> <<>>,
          profile_country |-> None, lookups |-> <<"RestrictedCourse", "IPFilter">>]
    ELSE check_access_ip_country(user, ip_address, course_key)

\* Lines 220-224: the check of the IP lists.
check_access_ip_lists(user, ip_address, course_key) ==
    IF Truthy(_check_ip_lists(ip_address, course_key))
    THEN [ret |-> Format("ip_blacklist",
                         [ip_addr |-> ip_address,
                          from_course |-> _from_course_msg(course_key, TRUE)]),
          cache |-> cache, logged |-> <<>>, profile_country |-> None,
          lookups |-> <<"RestrictedCourse", "IPFilter">>]
    ELSE check_access_ip_country(user, ip_address, course_key)

\* Mutation of check_access: the restricted-course registry is not consulted.
check_access_any_course(user, ip_address, course_key) ==
    check_access_ip_lists(user, ip_address, course_key)

\* Lines 214-218, and the rest through the parts above.  Past line 218
\* course_is_restricted is True, which is what the parts pass to
\* _from_course_msg.
check_access(user, ip_address, course_key) ==
    LET course_is_restricted == is_restricted_course(course_key)
    IN  IF ~ course_is_restricted
        THEN [ret |-> NoReason, cache |-> cache, logged |-> <<>>,
              profile_country |-> None, lookups |-> <<"RestrictedCourse">>]
        ELSE check_access_ip_lists(user, ip_address, course_key)

\* The embargo middleware: on a denial it answers with the embargo response, on
\* None the request proceeds and the middleware answers nothing.
middleware_response(ret) ==
    IF ret /= NoReason THEN _embargo_redirect_response ELSE [kind |-> None]

---------------------------------------------------------------------------
(* Strings the course API looks inside: sequences of one-character strings. *)

\* ord(ch) of the characters of the model.
CharCode(ch) == CASE ch = "+" -> 43
                  [] ch = "," -> 44
                  [] ch = "/" -> 47
                  [] ch = "a" -> 97
                  [] ch = "b" -> 98

\* s < t for two str: the first differing character decides, a proper prefix
\* is smaller.
RECURSIVE StrLess(_, _)
StrLess(s, t) ==
    IF t = <<>> THEN FALSE
    ELSE IF s = <<>> THEN TRUE
    ELSE IF Head(s) = Head(t) THEN StrLess(Tail(s), Tail(t))
    ELSE CharCode(Head(s)) < CharCode(Head(t))

\* s.split(sep): the list of the pieces between the separators.
RECURSIVE Split(_, _)
Split(s, sep) ==
    IF s = <<>> THEN << <<>> >>
    ELSE LET rest == Split(Tail(s), sep)
         IN  IF Head(s) = sep
             THEN << <<>> >> \o rest
             ELSE << <<Head(s)>> \o Head(rest) >> \o Tail(rest)

\* sep.join(parts)
RECURSIVE Join(_, _)
Join(parts, sep) ==
    IF parts = <<>> THEN <<>>
    ELSE IF Len(parts) = 1 THEN Head(parts)
    ELSE Head(parts) \o <<sep>> \o Join(Tail(parts), sep)

---------------------------------------------------------------------------
(* Collaborators of course_api/v0/views.py.                                *)

\* The result of a call: the value returned, or the exception raised.
Returns(value) == [exc |-> None, value |-> value]
Raises(exc) == [exc |-> exc, value |-> <<>>]

\* CourseKey.from_string for the org/course/run form of a course id: a key of
\* three non-empty parts; anything else raises InvalidKeyError, which is not a
\* ValueError.
from_string(course_id) ==
    LET parts == Split(course_id, "/")
    IN  IF /\ Len(parts) = 3
           /\ \A i \in 1..3 :
                  parts[i] /= <<>> /\ \A j \in 1..Len(parts[i]) : parts[i][j] /= "+"
        THEN Returns(parts)
        ELSE Raises("InvalidKeyError")

\* k1 < k2 for two course keys: the tuples (org, course, run) compare part by part.
KeyLess(k1, k2) ==
    \E i \in 1..3 :
        /\ StrLess(k1[i], k2[i])
        /\ \A j \in 1..(i - 1) : k1[j] = k2[j]

\* modulestore().get_courses(): the courses, in the store's order.
get_courses == store

\* modulestore().has_course(course_key)
has_course(course_key) == \E i \in 1..Len(store) : store[i].id = course_key

\* None, in the type of a course descriptor.
NoCourse == [id |-> <<>>, raw_grader |-> <<>>]

\* modulestore().get_course(course_key): the course, or None.
modulestore_get_course(course_key) ==
    IF has_course(course_key)
    THEN store[CHOOSE i \in 1..Len(store) : store[i].id = course_key]
    ELSE NoCourse

\* modulestore().get_course_structure(course_key)
get_course_structure(course_key) == [root |-> course_key]

\* courseware.courses.get_course: the course, or ValueError when the store has
\* no such course (what get_course_or_404 turns into Http404).
get_course(course_key) ==
    IF has_course(course_key)
    THEN Returns(modulestore_get_course(course_key))
    ELSE Raises("ValueError")

\* list.sort(key=lambda x: x.id): a stable sort, ascending by course key.
RECURSIVE SortById(_)
SortById(results) ==
    IF results = <<>> THEN <<>>
    ELSE LET sorted == SortById(SubSeq(results, 1, Len(results) - 1))
             x == results[Len(results)]
             \* x goes behind every element that is not greater than it
             n == Cardinality({i \in 1..Len(sorted) : ~ KeyLess(x.id, sorted[i].id)})
         IN  SubSeq(sorted, 1, n) \o <<x>> \o SubSeq(sorted, n + 1, Len(sorted))

---------------------------------------------------------------------------
(* course_api/v0/views.py                                                  *)

\* CourseViewMixin.get_course_or_404
get_course_or_404(course_id) ==
    LET course_key == from_string(course_id)
        course == get_course(course_key.value)
    IN  IF course_key.exc = "ValueError" THEN Raises("Http404")
        ELSE IF course_key.exc /= None THEN course_key
        ELSE IF course.exc = "ValueError" THEN Raises("Http404")
        ELSE course

\* The course descriptors collected for the course ids of the filter, in the
\* filter's order, up to the first id that raises.
RECURSIVE CollectCourses(_)
CollectCourses(course_ids) ==
    IF course_ids = <<>> THEN Returns(<<>>)
    ELSE LET course_key == from_string(Head(course_ids))
             course_descriptor == get_course(course_key.value)
             rest == CollectCourses(Tail(course_ids))
         IN  IF course_key.exc /= None THEN course_key
             ELSE IF course_descriptor.exc /= None THEN course_descriptor
             ELSE IF rest.exc /= None THEN rest
             ELSE Returns(<<course_descriptor.value>> \o rest.value)

\* Mutation of CourseList.get_queryset: the results are not sorted.
CourseList_get_queryset_unsorted(QUERY_PARAMS) ==
    LET given == "course_id" \in DOMAIN QUERY_PARAMS
        course_ids == IF given THEN QUERY_PARAMS["course_id"] ELSE <<>>
    IN  IF given /\ course_ids /= <<>>
        THEN CollectCourses(Split(course_ids, ","))
        ELSE Returns(get_courses)

\* CourseList.get_queryset.  QUERY_PARAMS is the query string's parameters.
CourseList_get_queryset(QUERY_PARAMS) ==
    LET given == "course_id" \in DOMAIN QUERY_PARAMS
        course_ids == IF given THEN QUERY_PARAMS["course_id"] ELSE <<>>
        course_descriptors ==
            IF given /\ course_ids /= <<>>
            THEN CollectCourses(Split(course_ids, ","))
            ELSE Returns(get_courses)
    IN  IF course_descriptors.exc /= None
        THEN course_descriptors
        ELSE Returns(SortById(course_descriptors.value))

\* CourseDetail.get_object
CourseDetail_get_object(course_id) == get_course_or_404(course_id)

\* CourseStructure.get_object
CourseStructure_get_object(course_id) ==
    LET course_key == from_string(course_id)
    IN  IF course_key.exc /= None THEN course_key
        ELSE IF ~ has_course(course_key.value) THEN Raises("Http404")
        ELSE Returns(get_course_structure(course_key.value))

\* CourseGradingPolicy.allow_empty
allow_empty == FALSE

\* CourseGradingPolicy.get_queryset
CourseGradingPolicy_get_queryset(course_id) ==
    LET course_key == from_string(course_id)
        course == modulestore_get_course(course_key.value)
    IN  IF course_key.exc /= None THEN course_key
        ELSE IF course = NoCourse THEN Raises("Http404")
        ELSE Returns(course.raw_grader)

\* The list view's handling of its queryset: an empty list is a 404 unless the
\* view allows empty lists.
list_view(queryset, view_allow_empty) ==
    IF queryset.exc /= None THEN queryset
    ELSE IF ~ view_allow_empty /\ queryset.value = <<>> THEN Raises("Http404")
    ELSE queryset

\* The HTTP response to a view's result: 200 with the data, 404 for Http404,
\* and the server error of an exception nothing catches.
http_response(result) ==
    IF result.exc = None THEN [status |-> 200, exc |-> None, data |-> result.value]
    ELSE IF result.exc = "Http404" THEN [status |-> 404, exc |-> None, data |-> <<>>]
    ELSE [status |-> 500, exc |-> result.exc, data |-> <<>>]

---------------------------------------------------------------------------
(* The embargo state machine.                                              *)

CacheKeys == {cache_key(u) : u \in Users}

\* No call has just returned.
NoEvaluation ==
    [user |-> None, ip_address |-> <<>>, course_key |-> None, ret |-> NoReason,
     cached |-> None, profile_country |-> None, lookups |-> <<>>, logged |-> <<>>]

NoResponse == [kind |-> None]

\* No call is in progress step by step.
NoCalls == <<>>

\* What every start has in common: no user has a profile yet, the cache is
\* empty, nothing is logged and no request was made.
InitRequests ==
    /\ profile = [u \in {} |-> None]
    /\ cache = [k \in CacheKeys |-> None]
    /\ log = <<>>
    /\ ev = NoEvaluation
    /\ response = NoResponse
    /\ calls = NoCalls

\* No course API request has just been answered.
NoRequest ==
    [view |-> None, course_id |-> <<>>, QUERY_PARAMS |-> [x \in {} |-> <<>>],
     status |-> 0, exc |-> None, data |-> <<>>]

\* An empty modulestore.
InitStore ==
    /\ store = <<>>
    /\ api = NoRequest

\* The embargo tables are administrative data: any content within the bounds.
\* One registered user, and the redirect URL is not set.
Init ==
    /\ restricted_courses \in SUBSET Courses
    /\ blacklist_ips \in SUBSET IPs
    /\ whitelist_ips \in SUBSET IPs
    /\ Cardinality(blacklist_ips \cup whitelist_ips) <= MaxIpList
    /\ country_rules \in {s \in SUBSET AllRules : Cardinality(s) <= MaxRules}
    /\ redirect_url = None
    /\ users = {"u1"}
    /\ InitRequests
    /\ InitStore

\* Any value of the redirect URL setting; every course is restricted and no
\* address is whitelisted.
InitSettings ==
    /\ restricted_courses = Courses
    /\ blacklist_ips \in {s \in SUBSET IPs : Cardinality(s) <= MaxIpList}
    /\ whitelist_ips = {}
    /\ country_rules \in {s \in SUBSET AllRules : Cardinality(s) <= MaxRules}
    /\ redirect_url \in RedirectUrls
    /\ users = {"u1"}
    /\ InitRequests
    /\ InitStore

\* Two registered users; every course is restricted and the IP lists are empty.
InitCache ==
    /\ restricted_courses = Courses
    /\ blacklist_ips = {}
    /\ whitelist_ips = {}
    /\ country_rules \in {s \in SUBSET AllRules : Cardinality(s) <= MaxRules}
    /\ redirect_url = None
    /\ users = Users
    /\ InitRequests
    /\ InitStore

\* A request of a user from an address for a course passes the embargo
\* middleware, which calls check_access and answers on a denial.
ProcessRequest(user, ip_address, course_key) ==
    LET r == check_access(user, ip_address, course_key)
    IN  /\ cache' = r.cache
        /\ log' = log \o r.logged
        /\ ev' = [user |-> user, ip_address |-> ip_address, course_key |-> course_key,
                  ret |-> r.ret, cached |-> cache[cache_key(user)],
                  profile_country |-> r.profile_country,
                  lookups |-> r.lookups, logged |-> r.logged]
        /\ response' = middleware_response(r.ret)
        /\ UNCHANGED <<restricted_courses, blacklist_ips, whitelist_ips, country_rules,
                       redirect_url, users, profile, store, api, calls>>

\* A user's profile is created with, or its country is changed to, a code.
\* ev and response describe a call against the tables as they are: they are
\* dropped when the tables change.
EditProfile(user, code) ==
    /\ IF user \in DOMAIN profile THEN profile[user] /= code ELSE TRUE
    /\ profile' = [u \in DOMAIN profile \cup {user} |->
                      IF u = user THEN code ELSE profile[u]]
    /\ ev' = NoEvaluation
    /\ response' = NoResponse
    /\ UNCHANGED <<restricted_courses, blacklist_ips, whitelist_ips, country_rules,
                   redirect_url, users, cache, log, store, api, calls>>

\* The cache entry of a user reaches its timeout.
CacheExpire(user) ==
    /\ cache[cache_key(user)] /= None
    /\ cache' = [cache EXCEPT ![cache_key(user)] = None]
    /\ ev' = NoEvaluation
    /\ response' = NoResponse
    /\ UNCHANGED <<restricted_courses, blacklist_ips, whitelist_ips, country_rules,
                   redirect_url, users, profile, log, store, api, calls>>

Next ==
    \/ \E u \in users, ip \in IPs, c \in Courses : ProcessRequest(u, ip, c)
    \/ \E u \in users, code \in ProfileCodes : EditProfile(u, code)
    \/ \E u \in users : CacheExpire(u)

Spec == Init /\ [][Next]_vars

SpecSettings == InitSettings /\ [][Next]_vars

SpecCache == InitCache /\ [][Next]_vars

\* Administrative tooling puts an address on the whitelist of the IP filter or
\* takes it off.  Nothing else changes: the calls before and after the step
\* run against the same tables, users, profiles and cache.
EditWhitelist(ip) ==
    /\ whitelist_ips' = IF ip \in whitelist_ips
                        THEN whitelist_ips \ {ip}
                        ELSE whitelist_ips \cup {ip}
    /\ Cardinality(blacklist_ips \cup whitelist_ips') <= MaxIpList
    /\ ev' = NoEvaluation
    /\ response' = NoResponse
    /\ UNCHANGED <<restricted_courses, blacklist_ips, country_rules,
                   redirect_url, users, profile, cache, log, store, api, calls>>

NextFilter ==
    \/ Next
    \/ \E ip \in IPs : EditWhitelist(ip)

\* One registered user; one course is restricted and the other is not, with
\* any IP lists and any rules of the restricted course within the bounds.
InitFilter ==
    /\ restricted_courses = {"c1"}
    /\ blacklist_ips \in SUBSET IPs
    /\ whitelist_ips \in SUBSET IPs
    /\ Cardinality(blacklist_ips \cup whitelist_ips) <= MaxIpList
    /\ country_rules \in {s \in SUBSET AllRules :
                             /\ Cardinality(s) <= MaxRules
                             /\ \A r \in s : r.course \in restricted_courses}
    /\ redirect_url = None
    /\ users = {"u1"}
    /\ InitRequests
    /\ InitStore

SpecFilter == InitFilter /\ [][NextFilter]_vars

\* Two registered users; one course is restricted and the other is not, with
\* any blacklist and any rules of the restricted course within the bounds, and
\* no address is whitelisted.
InitFrame ==
    /\ restricted_courses = {"c1"}
    /\ blacklist_ips \in {s \in SUBSET IPs : Cardinality(s) <= MaxIpList}
    /\ whitelist_ips = {}
    /\ country_rules \in {s \in SUBSET AllRules :
                             /\ Cardinality(s) <= MaxRules
                             /\ \A r \in s : r.course \in restricted_courses}
    /\ redirect_url = None
    /\ users = Users
    /\ InitRequests
    /\ InitStore

SpecFrame == InitFrame /\ [][Next]_vars

---------------------------------------------------------------------------
(* check_access step by step: calls of overlapping requests, whose cache   *)
(* and profile accesses interleave.                                        *)

\* How many check_access calls are in progress at once at most.
MaxOverlap == 2

Calls == 1..MaxOverlap

\* A call that has not begun.
IdleCall ==
    [pc |-> "idle", user |-> None, ip_address |-> <<>>, course_key |-> None,
     profile_country |-> None, ret |-> NoReason, lookups |-> <<>>]

\* Mutation of profile_country_code: the code is not upper-cased.
profile_country_code_raw(user) ==
    IF user \in DOMAIN profile /\ profile[user] /= None
    THEN profile[user]
    ELSE ""

\* Lines 173-177: the country code read from the profile on a cache miss.
profile_country_code(user) ==
    IF user \in DOMAIN profile /\ profile[user] /= None
    THEN Upper(profile[user])
    ELSE ""

\* One user, who has any profile or none and whose profile is not edited; one
\* restricted course with any rules within the bound; the cache is empty and
\* no call has begun.
InitOverlap ==
    /\ restricted_courses = {"c1"}
    /\ blacklist_ips = {}
    /\ whitelist_ips = {}
    /\ country_rules \in {s \in SUBSET AllRules :
                             /\ Cardinality(s) <= MaxRules
                             /\ \A r \in s : r.course \in restricted_courses}
    /\ redirect_url = None
    /\ users = {"u1"}
    /\ profile \in {[u \in {} |-> None]} \cup [users -> ProfileCodes]
    /\ cache = [k \in CacheKeys |-> None]
    /\ log = <<>>
    /\ ev = NoEvaluation
    /\ response = NoResponse
    /\ InitStore
    /\ calls = [i \in Calls |-> IdleCall]

\* Lines 214-232: the call begins and makes the checks that come before the
\* profile country: it returns there, or goes on to line 234.
CallBegin(i, user, ip_address, course_key) ==
    /\ calls[i].pc = "idle"
    /\ LET r == check_access(user, ip_address, course_key)
       IN  calls' = [calls EXCEPT ![i] =
                        IF r.profile_country = None
                        THEN [pc |-> "done", user |-> user, ip_address |-> ip_address,
                              course_key |-> course_key, profile_country |-> None,
                              ret |-> r.ret, lookups |-> r.lookups]
                        ELSE [pc |-> "cache.get", user |-> user,
                              ip_address |-> ip_address, course_key |-> course_key,
                              profile_country |-> None, ret |-> NoReason,
                              lookups |-> SubSeq(r.lookups, 1, 4)]]
    /\ UNCHANGED <<restricted_courses, blacklist_ips, whitelist_ips, country_rules,
                   redirect_url, users, profile, cache, log, ev, response, store, api>>

\* Lines 171-172: cache.get, and the test of what it returned.
CacheGet(i) ==
    /\ calls[i].pc = "cache.get"
    /\ LET cached == cache[cache_key(calls[i].user)]
       IN  calls' = [calls EXCEPT ![i].pc = IF cached = None THEN "profile" ELSE "return",
                                  ![i].profile_country = cached,
                                  ![i].lookups = Append(@, "cache.get")]
    /\ UNCHANGED <<restricted_courses, blacklist_ips, whitelist_ips, country_rules,
                   redirect_url, users, profile, cache, log, ev, response, store, api>>

\* Lines 173-177: the profile is read.
ProfileRead(i) ==
    /\ calls[i].pc = "profile"
    /\ calls' = [calls EXCEPT ![i].pc = "cache.set",
                              ![i].profile_country = profile_country_code(calls[i].user),
                              ![i].lookups = Append(@, "profile")]
    /\ UNCHANGED <<restricted_courses, blacklist_ips, whitelist_ips, country_rules,
                   redirect_url, users, profile, cache, log, ev, response, store, api>>

\* Line 178: cache.set of what the profile read gave.
CacheSet(i) ==
    /\ calls[i].pc = "cache.set"
    /\ cache' = [cache EXCEPT ![cache_key(calls[i].user)] = calls[i].profile_country]
    /\ calls' = [calls EXCEPT ![i].pc = "return",
                              ![i].lookups = Append(@, "cache.set")]
    /\ UNCHANGED <<restricted_courses, blacklist_ips, whitelist_ips, country_rules,
                   redirect_url, users, profile, log, ev, response, store, api>>

\* Lines 180 and 235-242: the profile country check on the value obtained,
\* and the call's return.
CallReturn(i) ==
    /\ calls[i].pc = "return"
    /\ calls' = [calls EXCEPT
                    ![i].pc = "done",
                    ![i].ret =
                        IF _check_user_country(calls[i].profile_country, calls[i].course_key)
                        THEN Format("profile_country",
                                    [user_id |-> unique_id_for_user(calls[i].user),
                                     profile_country |-> calls[i].profile_country,
                                     from_course |->
                                         _from_course_msg(calls[i].course_key, TRUE)])
                        ELSE NoReason,
                    ![i].lookups = Append(@, "CountryAccessRule")]
    /\ UNCHANGED <<restricted_courses, blacklist_ips, whitelist_ips, country_rules,
                   redirect_url, users, profile, cache, log, ev, response, store, api>>

NextOverlap ==
    \/ \E i \in Calls, u \in users, ip \in IPs, c \in Courses : CallBegin(i, u, ip, c)
    \/ \E i \in Calls : CacheGet(i)
    \/ \E i \in Calls : ProfileRead(i)
    \/ \E i \in Calls : CacheSet(i)
    \/ \E i \in Calls : CallReturn(i)

SpecOverlap == InitOverlap /\ [][NextOverlap]_vars

---------------------------------------------------------------------------
(* The course API state machine.                                           *)

\* How many courses the modulestore holds at most.
MaxCourses == 2
\* How many course ids a course_id filter names at most.
MaxFilterIds == 2

\* The keys of the courses that can be created.
CourseKeys == { << <<"a">>, <<"a">>, <<"a">> >>,
                << <<"a">>, <<"b">>, <<"a">> >>,
                << <<"b">>, <<"a">>, <<"a">> >> }

\* A course's raw_grader: the default graders, or none.
Graders == { <<>>, << [type |-> "Homework", min_count |-> 24] >> }

\* The course ids a course_id filter carries: those of CourseKeys and
\* malformed ones (two parts, the empty str).
RequestIds == { <<"a", "/", "a", "/", "a">>,
                <<"a", "/", "b", "/", "a">>,
                <<"b", "/", "a", "/", "a">>,
                <<"a", "/", "a">>,
                <<>> }

\* The course ids the path of a request carries: three parts separated by
\* slashes or plus signs.
PathIds == { <<"a", "/", "a", "/", "a">>,
             <<"a", "/", "b", "/", "a">>,
             <<"b", "/", "a", "/", "a">>,
             <<"a", "+", "a", "+", "a">>,
             <<"a", "+", "a", "/", "a">> }

\* The query strings of a list request: no course_id parameter, or the ids of
\* a list of request ids joined by commas.
RECURSIVE IdLists(_)
IdLists(n) ==
    IF n = 0 THEN { <<>> }
    ELSE LET shorter == IdLists(n - 1)
         IN  shorter \cup {Append(l, id) : l \in {x \in shorter : Len(x) = n - 1},
                                           id \in RequestIds}

ListQueries ==
    { [x \in {} |-> <<>>] } \cup
    { [course_id |-> Join(l, ",")] : l \in IdLists(MaxFilterIds) \ { <<>> } }

InitEmbargoIdle ==
    /\ restricted_courses = {}
    /\ blacklist_ips = {}
    /\ whitelist_ips = {}
    /\ country_rules = {}
    /\ redirect_url = None
    /\ users = {}
    /\ InitRequests

InitApi == InitEmbargoIdle /\ InitStore

\* A course is created in the modulestore.  api describes a request against
\* the store as it is: it is dropped when the store changes.
CreateCourse(course_key, raw_grader) ==
    /\ Len(store) < MaxCourses
    /\ ~ has_course(course_key)
    /\ store' = Append(store, [id |-> course_key, raw_grader |-> raw_grader])
    /\ api' = NoRequest
    /\ UNCHANGED <<restricted_courses, blacklist_ips, whitelist_ips, country_rules,
                   redirect_url, users, profile, cache, log, ev, response, calls>>

Answer(view, course_id, QUERY_PARAMS, result) ==
    /\ api' = [view |-> view, course_id |-> course_id, QUERY_PARAMS |-> QUERY_PARAMS,
               status |-> http_response(result).status,
               exc |-> http_response(result).exc,
               data |-> http_response(result).data]
    /\ UNCHANGED <<restricted_courses, blacklist_ips, whitelist_ips, country_rules,
                   redirect_url, users, profile, cache, log, ev, response, store, calls>>

\* GET / and GET /?course_id=...
GetCourseList(QUERY_PARAMS) ==
    Answer("list", <<>>, QUERY_PARAMS,
           list_view(CourseList_get_queryset(QUERY_PARAMS), TRUE))

\* GET /{course_id}/
GetCourseDetail(course_id) ==
    Answer("detail", course_id, [x \in {} |-> <<>>], CourseDetail_get_object(course_id))

\* GET /{course_id}/structure/
GetCourseStructure(course_id) ==
    Answer("structure", course_id, [x \in {} |-> <<>>],
           CourseStructure_get_object(course_id))

\* GET /{course_id}/grading_policy/
GetCourseGradingPolicy(course_id) ==
    Answer("grading_policy", course_id, [x \in {} |-> <<>>],
           list_view(CourseGradingPolicy_get_queryset(course_id), allow_empty))

NextApi ==
    \/ \E k \in CourseKeys, g \in Graders : CreateCourse(k, g)
    \/ \E q \in ListQueries : GetCourseList(q)
    \/ \E id \in PathIds : GetCourseDetail(id)
    \/ \E id \in PathIds : GetCourseStructure(id)
    \/ \E id \in PathIds : GetCourseGradingPolicy(id)

SpecApi == InitApi /\ [][NextApi]_vars

---------------------------------------------------------------------------
(* Properties of the embargo check.  They speak of the call that has just  *)
(* returned (ev) and of the tables it ran against.                         *)

Evaluated == ev.user /= None

Allowed == ev.ret = NoReason

Denied(reason) == ev.ret.template = reason

\* The country an address resolves to in the database of its family, the
\* empty str when the database does not know the address.
GeoCountry(ip) ==
    IF ip \in DOMAIN GEOIP THEN GEOIP[ip]
    ELSE IF ip \in DOMAIN GEOIPV6 THEN GEOIPV6[ip]
    ELSE ""

\* The profile country of the call's user as the cached lookup resolves it:
\* the cache entry the call found, and without one the upper-cased code of
\* the profile (the empty str without a profile or a code).
LookupCountry ==
    IF ev.cached /= None THEN ev.cached
    ELSE IF ev.user \in DOMAIN profile /\ profile[ev.user] /= None
         THEN Upper(profile[ev.user])
         ELSE ""

DenyRule(course, country) ==
    [course |-> course, country |-> country, rule_type |-> BLACK_LIST] \in country_rules

AllowList(course) ==
    {r.country : r \in {x \in country_rules :
                            x.course = course /\ x.rule_type = WHITE_LIST}}

\* A country code is blocked for a course.
Blocked(course, country) ==
    /\ country /= ""
    /\ \/ DenyRule(course, country)
       \/ AllowList(course) /= {} /\ country \notin AllowList(course)

\* The call got past the registry and the IP lists.
PastIpLists ==
    /\ Evaluated
    /\ ev.course_key \in restricted_courses
    /\ ev.ip_address \notin blacklist_ips

\* C1: for a course that is not in the restricted-course registry check_access
\* returns None (Allow), whatever the address and the user: also for a
\* blacklisted address and a country that a rule of the course blocks.
C1_UnrestrictedCourseAllowed ==
    Evaluated /\ ev.course_key \notin restricted_courses => Allowed

\* A call for an unrestricted course from a blacklisted address whose country
\* the course's rules deny.
C1_Witness ==
    /\ Evaluated
    /\ ev.course_key \notin restricted_courses
    /\ ev.ip_address \in blacklist_ips
    /\ DenyRule(ev.course_key, GeoCountry(ev.ip_address))
    /\ Allowed

\* C2: for a restricted course and a blacklisted address check_access returns
\* the ip_blacklist reason for that address, also when the address is
\* whitelisted too, whatever the countries and the rules.
C2_BlacklistedDenied ==
    Evaluated /\ ev.course_key \in restricted_courses /\ ev.ip_address \in blacklist_ips
    => Denied("ip_blacklist") /\ ev.ret.kwargs.ip_addr = ev.ip_address

\* A call from an address that is on both lists.
C2_Witness ==
    /\ Evaluated
    /\ ev.course_key \in restricted_courses
    /\ ev.ip_address \in blacklist_ips \cap whitelist_ips
    /\ Denied("ip_blacklist")

\* C3: for a restricted course with a deny rule for a country C and an
\* address that is not blacklisted: when the address resolves to C the call
\* returns the ip_country reason; when it resolves to a country that no deny
\* rule names and no allow-list excludes, and the profile country is not
\* blocked, the call returns None.
C3_DenyRule ==
    \A C \in Countries :
        PastIpLists /\ DenyRule(ev.course_key, C) =>
            /\ GeoCountry(ev.ip_address) = C =>
                   Denied("ip_country") /\ ev.ret.kwargs.ip_country = C
            /\ ( /\ GeoCountry(ev.ip_address) \in Countries
                 /\ ~ DenyRule(ev.course_key, GeoCountry(ev.ip_address))
                 /\ \/ AllowList(ev.course_key) = {}
                    \/ GeoCountry(ev.ip_address) \in AllowList(ev.course_key)
                 /\ ~ Blocked(ev.course_key, LookupCountry) )
               => Allowed

\* A call from the IPv6 address of the US for a course that denies the US.
C3_Witness ==
    /\ PastIpLists
    /\ ev.ip_address = Ip6Us
    /\ DenyRule(ev.course_key, "US")
    /\ Denied("ip_country")

\* C4: for a restricted course with an allow-list, an address that is not
\* blacklisted and resolves to a country on the allow-list, and a user whose
\* profile country is not on the allow-list, the call returns the
\* profile_country reason.
C4_AllowListProfileCountry ==
    /\ PastIpLists
    /\ AllowList(ev.course_key) /= {}
    /\ GeoCountry(ev.ip_address) \in AllowList(ev.course_key)
    /\ ~ DenyRule(ev.course_key, GeoCountry(ev.ip_address))
    /\ LookupCountry /= ""
    /\ LookupCountry \notin AllowList(ev.course_key)
    => Denied("profile_country") /\ ev.ret.kwargs.profile_country = LookupCountry

\* The allow-list is the US alone, the address is from the US and the
\* profile says CU.
C4_Witness ==
    /\ PastIpLists
    /\ AllowList(ev.course_key) = {"US"}
    /\ ev.ip_address = Ip6Us
    /\ ev.user \in DOMAIN profile
    /\ profile[ev.user] = "CU"
    /\ ev.cached = None
    /\ Denied("profile_country")

\* C5: when the address resolves to no country, for a restricted course and
\* an address that is not blacklisted, the call does not return the
\* ip_country reason, whatever the rules; it goes on to the profile country
\* check, which alone decides between the profile_country reason and None.
C5_GeolocationMiss ==
    PastIpLists /\ GeoCountry(ev.ip_address) = "" =>
        /\ ~ Denied("ip_country")
        /\ ev.profile_country = LookupCountry
        /\ IF Blocked(ev.course_key, LookupCountry)
           THEN Denied("profile_country")
           ELSE Allowed

\* An unknown address, a course with an allow-list, and a user the profile
\* country check then blocks.
C5_Witness ==
    /\ PastIpLists
    /\ ev.ip_address = IpUnknown
    /\ AllowList(ev.course_key) /= {}
    /\ Denied("profile_country")

\* C6: once a call has looked up a user's profile country the cache holds it,
\* and a call that finds a cache entry for its user returns that entry without
\* reading the profile, also when the entry is the empty str and when the
\* profile was edited since; the profile is read only by a call that finds no
\* entry.
C6_CachedLookup ==
    Evaluated /\ ev.profile_country /= None =>
        /\ cache[cache_key(ev.user)] = ev.profile_country
        /\ IF ev.cached /= None
           THEN /\ ev.profile_country = ev.cached
                /\ \A i \in 1..Len(ev.lookups) : ev.lookups[i] /= "profile"
           ELSE \E i \in 1..Len(ev.lookups) : ev.lookups[i] = "profile"

\* The call found the empty str cached while the profile by now says CU.
C6_Witness ==
    /\ Evaluated
    /\ ev.cached = ""
    /\ ev.user \in DOMAIN profile
    /\ profile[ev.user] = "CU"
    /\ ev.profile_country = ""
    /\ \A i \in 1..Len(ev.lookups) : ev.lookups[i] /= "profile"

\* C7: a call that returns a reason logs exactly one info record carrying the
\* formatted reason, and a call that returns None logs nothing.
C7_DenialLogged ==
    Evaluated =>
        IF Allowed
        THEN ev.logged = <<>>
        ELSE ev.logged = _log_embargo_reason(ev.ret).logged

---------------------------------------------------------------------------
(* Properties of the course API.  They speak of the request that has just  *)
(* been answered (api) and of the store it ran against.                    *)

\* The ids of the courses in the store.
StoreIds == {store[i].id : i \in 1..Len(store)}

\* A course id is well formed: org/course/run, three non-empty parts without
\* a plus sign.
WellFormed(course_id) ==
    LET parts == Split(course_id, "/")
    IN  /\ Len(parts) = 3
        /\ \A i \in 1..3 : parts[i] /= <<>> /\ \A j \in 1..Len(parts[i]) : parts[i][j] /= "+"

\* A course id names a course of the store.
NamesCourse(course_id) ==
    WellFormed(course_id) /\ Split(course_id, "/") \in StoreIds

\* C9: each of the detail, structure and grading policy views answers 404 to
\* a course id that is malformed or names no course, and 200 to the id of a
\* course of the store.
C9_InvalidCourseIs404 ==
    api.view \in {"detail", "structure", "grading_policy"} =>
        IF NamesCourse(api.course_id) THEN api.status = 200 ELSE api.status = 404

\* The course_id filter of the list request, and the ids it names.
FilterGiven ==
    "course_id" \in DOMAIN api.QUERY_PARAMS /\ api.QUERY_PARAMS["course_id"] /= <<>>

NamedIds == Split(api.QUERY_PARAMS["course_id"], ",")

\* A list of courses ascends by course id.
Ascending(courses) ==
    \A i, j \in 1..Len(courses) : i < j => ~ KeyLess(courses[j].id, courses[i].id)

\* C10: the list view's queryset is, without a course_id filter, all courses
\* of the store, and with a filter of comma-separated ids of courses, exactly
\* the courses it names; either way ascending by course id, whatever the
\* order in the store and in the filter.
C10_ListQueryset ==
    api.view = "list" =>
        IF ~ FilterGiven
        THEN /\ api.status = 200
             /\ Len(api.data) = Len(store)
             /\ \A i \in 1..Len(store) : \E j \in 1..Len(api.data) : api.data[j] = store[i]
             /\ Ascending(api.data)
        ELSE (\A n \in 1..Len(NamedIds) : NamesCourse(NamedIds[n])) =>
             /\ api.status = 200
             /\ Len(api.data) = Len(NamedIds)
             /\ \A n \in 1..Len(NamedIds) :
                    \E j \in 1..Len(api.data) :
                        /\ api.data[j].id = Split(NamedIds[n], "/")
                        /\ \E i \in 1..Len(store) : store[i] = api.data[j]
             /\ \A j \in 1..Len(api.data) :
                    \E n \in 1..Len(NamedIds) : api.data[j].id = Split(NamedIds[n], "/")
             /\ Ascending(api.data)

\* A filter that names two courses in descending order, against a store that
\* holds them in descending order too.
C10_Witness ==
    /\ api.view = "list"
    /\ FilterGiven
    /\ api.status = 200
    /\ Len(NamedIds) = 2
    /\ KeyLess(Split(NamedIds[2], "/"), Split(NamedIds[1], "/"))
    /\ Len(store) = 2
    /\ KeyLess(store[2].id, store[1].id)
    /\ api.data = <<store[2], store[1]>>

---------------------------------------------------------------------------
(* Properties of the order of the checks and of the call's effects.        *)

\* The lookups of a call that stops at the registry, at the IP lists and at
\* the country of the address.
LookupsToRegistry == <<"RestrictedCourse">>
LookupsToIpLists == <<"RestrictedCourse", "IPFilter">>
LookupsToIpCountry == <<"RestrictedCourse", "IPFilter", "GeoIP", "CountryAccessRule">>

\* C11: check_access makes its checks in the order restricted course, IP
\* blacklist, country of the address, profile country, and the first check that
\* matches decides: a blacklisted address gives the ip_blacklist reason also
\* when its country is blocked, a blocked country of the address gives the
\* ip_country reason also when the profile country is blocked, and a call that
\* stops at a check makes none of the later lookups (geolocation, cache,
\* profile).
C11_FirstMatchWins ==
    Evaluated =>
        IF ev.course_key \notin restricted_courses
        THEN Allowed /\ ev.lookups = LookupsToRegistry
        ELSE IF ev.ip_address \in blacklist_ips
        THEN Denied("ip_blacklist") /\ ev.lookups = LookupsToIpLists
        ELSE IF Blocked(ev.course_key, GeoCountry(ev.ip_address))
        THEN /\ Denied("ip_country")
             /\ ev.lookups = LookupsToIpCountry
             /\ ev.profile_country = None
        ELSE /\ IF Blocked(ev.course_key, LookupCountry)
                THEN Denied("profile_country")
                ELSE Allowed
             /\ SubSeq(ev.lookups, 1, 4) = LookupsToIpCountry
             /\ ev.lookups[5] = "cache.get"
             /\ ev.lookups[Len(ev.lookups)] = "CountryAccessRule"

\* A call whose address resolves to a blocked country, for a user whose
\* profile country is blocked as well.
C11_Witness ==
    /\ PastIpLists
    /\ Blocked(ev.course_key, GeoCountry(ev.ip_address))
    /\ ev.user \in DOMAIN profile
    /\ profile[ev.user] /= None
    /\ Blocked(ev.course_key, Upper(profile[ev.user]))
    /\ Denied("ip_country")

---------------------------------------------------------------------------
(* Properties of overlapping calls.                                        *)

\* The calls that have obtained a profile country.
Obtained == {i \in Calls : calls[i].pc \in {"cache.set", "return", "done"}
                            /\ calls[i].profile_country /= None}

\* The calls that found no cache entry and read the profile.
ReadTheProfile == {i \in Calls : \E k \in 1..Len(calls[i].lookups) :
                                     calls[i].lookups[k] = "profile"}

\* C13: however the cache.get, profile read and cache.set steps of overlapping
\* calls for one user interleave, while the profile is not edited: every call
\* obtains the same profile country, the upper-cased country code of the
\* profile or the empty str without a profile or a code; once a call is past
\* its lookup the user's cache entry holds that value; and a call returns what
\* check_access returns when it runs alone.
C13_OverlappingLookups ==
    /\ \A i \in Obtained :
           calls[i].profile_country =
               IF calls[i].user \in DOMAIN profile /\ profile[calls[i].user] /= None
               THEN Upper(profile[calls[i].user])
               ELSE ""
    /\ \A i, j \in Obtained :
           calls[i].user = calls[j].user =>
               calls[i].profile_country = calls[j].profile_country
    /\ \A i \in Obtained :
           calls[i].pc \in {"return", "done"} =>
               cache[cache_key(calls[i].user)] = calls[i].profile_country
    /\ \A i \in Calls :
           calls[i].pc = "done" =>
               calls[i].ret =
                   check_access(calls[i].user, calls[i].ip_address, calls[i].course_key).ret

\* Two calls that both found no cache entry and both read the profile have
\* returned, one of them denied on the profile country.
C13_Witness ==
    /\ calls /= NoCalls
    /\ ReadTheProfile = Calls
    /\ \A i \in Calls : calls[i].pc = "done"
    /\ \E i \in Calls : calls[i].ret /= NoReason /\ calls[i].ret.template = "profile_country"

---------------------------------------------------------------------------
(* Properties of the state a call leaves behind.                           *)

\* C14: a check_access call changes none of the restricted-course registry,
\* the IP blacklist and whitelist, the country rules and the profiles; of the
\* cache it leaves every entry but that of the calling user as it is, and it
\* writes that entry, with the profile country it looked up, exactly when the
\* call gets to the profile country check (restricted course, address not
\* blacklisted, country of the address not blocked) and finds no entry.
C14_CallFrame ==
    [][ ev'.user /= None =>
            LET u == ev'.user
                ip == ev'.ip_address
                c == ev'.course_key
            IN  /\ ProcessRequest(u, ip, c)
                /\ UNCHANGED <<restricted_courses, blacklist_ips, whitelist_ips,
                               country_rules, profile>>
                /\ \A k \in CacheKeys \ {cache_key(u)} : cache'[k] = cache[k]
                /\ IF /\ c \in restricted_courses
                      /\ ip \notin blacklist_ips
                      /\ ~ Blocked(c, GeoCountry(ip))
                      /\ cache[cache_key(u)] = None
                   THEN cache'[cache_key(u)] =
                            IF u \in DOMAIN profile /\ profile[u] /= None
                            THEN Upper(profile[u])
                            ELSE ""
                   ELSE cache'[cache_key(u)] = cache[cache_key(u)] ]_vars

\* A call of the second user has written that user's cache entry, next to the
\* entry of the first user, which holds another value.
C14_Witness ==
    /\ Evaluated
    /\ ev.user = "u2"
    /\ ev.cached = None
    /\ cache[cache_key("u2")] = ev.profile_country
    /\ cache[cache_key("u1")] /= None
    /\ cache[cache_key("u1")] /= cache[cache_key("u2")]

=============================================================================
